---- MODULE Spec2Model ----
(***************************************************************************)
(* Model of app.py: a Mamdani fuzzy-inference compatibility scorer built   *)
(* on skfuzzy's control API.  Four control systems (morphological,         *)
(* psychological, medical, salary) share one Consequent, `compatibility`.  *)
(* compute_compatibility_score creates one ControlSystemSimulation per     *)
(* control system, assigns the crisp inputs, computes each simulation and  *)
(* averages the four crisp outputs; the module then compares two scores    *)
(* against 50.                                                             *)
(*                                                                         *)
(* Numbers.  Membership degrees are rationals; they are held as integer    *)
(* numerators over the common denominator Den.  Points of the upsampled    *)
(* output universe are held as integer numerators over XScale.  Crisp      *)
(* scores are exact reduced fractions <<n, d>>.  The float64 rounding of   *)
(* numpy is not modelled.                                                  *)
(***************************************************************************)
EXTENDS Integers, Sequences, FiniteSets, TLC

\* ------------------------------------------------------------------------
\* Arithmetic helpers
\* ------------------------------------------------------------------------
\* (Here and below a value is bound through a singleton set where it is used
\* more than once, so that it is computed once.)
Min(a, b) == CHOOSE m \in {IF p[1] <= p[2] THEN p[1] ELSE p[2] : p \in {<<a, b>>}} : TRUE
Max(a, b) == CHOOSE m \in {IF p[1] >= p[2] THEN p[1] ELSE p[2] : p \in {<<a, b>>}} : TRUE
Abs(a) == IF a < 0 THEN 0 - a ELSE a

RECURSIVE GCD(_, _)
GCD(a, b) == IF b = 0 THEN a ELSE GCD(b, a % b)

LCM(a, b) == (a \div GCD(a, b)) * b

MinSet(S) == CHOOSE e \in S : \A f \in S : e <= f

RECURSIVE SortSet(_)
SortSet(S) == IF S = {} THEN << >>
              ELSE LET e == MinSet(S) IN <<e>> \o SortSet(S \ {e})

\* Exact rationals <<n, d>>, d > 0, in lowest terms.
Rat(n, d) == LET g == GCD(Abs(n), d) IN <<n \div g, d \div g>>
RatAdd(p, q) == LET l == LCM(p[2], q[2])
                IN Rat(p[1] * (l \div p[2]) + q[1] * (l \div q[2]), l)
RatDivInt(p, k) == LET g == GCD(Abs(p[1]), k)
                   IN <<p[1] \div g, p[2] * (k \div g)>>

\* ------------------------------------------------------------------------
\* Linguistic variables (app.py lines 19-56)
\* ------------------------------------------------------------------------
\* The arguments <<start, stop>> of np.arange(start, stop, 1) for the
\* universe of every variable: start, start+1, ..., stop-1 (stop excluded).
arange ==
  [ compatibility     |-> <<0, 101>>,
    skin_colour       |-> <<0, 101>>,
    hair_colour       |-> <<0, 101>>,
    height            |-> <<120, 220>>,
    temperament       |-> <<0, 101>>,
    blood_group       |-> <<0, 101>>,
    educational_level |-> <<0, 101>> ]

\* universe.min(), universe.max() and the universe of a variable.
UMin(v) == arange[v][1]
UMax(v) == arange[v][2] - 1
Universe(v) == UMin(v) .. UMax(v)

\* The breakpoints [a, b, c] handed to fuzz.trimf for every term.
abc ==
  [ compatibility     |-> [low |-> <<0, 25, 50>>, medium |-> <<25, 50, 75>>,
                           high |-> <<50, 75, 100>>],
    skin_colour       |-> [light |-> <<0, 25, 50>>, medium |-> <<25, 50, 75>>,
                           dark |-> <<50, 75, 100>>],
    hair_colour       |-> [blonde |-> <<0, 25, 50>>, brown |-> <<25, 50, 75>>,
                           black |-> <<50, 75, 100>>],
    height            |-> [short |-> <<120, 150, 170>>,
                           average |-> <<150, 170, 190>>,
                           tall |-> <<170, 190, 220>>],
    temperament       |-> [calm |-> <<0, 25, 50>>, balanced |-> <<25, 50, 75>>,
                           angry |-> <<50, 75, 100>>],
    blood_group       |-> [A |-> <<0, 25, 50>>, B |-> <<25, 50, 75>>,
                           O |-> <<50, 75, 100>>],
    educational_level |-> [low |-> <<0, 25, 50>>, medium |-> <<25, 50, 75>>,
                           high |-> <<50, 75, 100>>] ]

Variables == DOMAIN abc
Consequent == "compatibility"
Antecedents == Variables \ {Consequent}
Labels(v) == DOMAIN abc[v]
TermIds == UNION {{<<v, l>> : l \in Labels(v)} : v \in Variables}

\* Common denominator of the membership degrees: every slope 1/(b-a),
\* 1/(c-b) of the configuration (1/25, 1/20, 1/30) is a multiple of 1/Den.
Den == 300

\* Denominator of the points at which a level k/Den crosses a side of an
\* output term (slope 1/25): a multiple of 25/Den.
XScale == 12

\* A triangle that misses its peak: the two open sides only, 0 at x = b.
trimfOpenSides(x, t) ==
  LET a == t[1]  b == t[2]  c == t[3]
  IN IF a /= b /\ a < x /\ x < b THEN ((x - a) * Den) \div (b - a)
     ELSE IF b /= c /\ b < x /\ x < c THEN ((c - x) * Den) \div (c - b)
     ELSE 0

\* fuzz.trimf(x, [a, b, c]) at one point x of the universe, times Den:
\* the left side where a < x < b, the right side where b < x < c, 1 at x = b,
\* 0 elsewhere.
trimf(x, t) ==
  LET a == t[1]  b == t[2]  c == t[3]
  IN IF x = b THEN Den
     ELSE IF a /= b /\ a < x /\ x < b THEN ((x - a) * Den) \div (b - a)
     ELSE IF b /= c /\ b < x /\ x < c THEN ((c - x) * Den) \div (c - b)
     ELSE 0

\* term.mf[x]: the sampled membership array of term t at the point x of
\* its universe.
mf(t, x) == trimf(x, abc[t[1]][t[2]])

\* ------------------------------------------------------------------------
\* Rules and control systems (app.py lines 59-82)
\* ------------------------------------------------------------------------
\* A rule: the terms joined by & in its antecedent and the term of
\* `compatibility` it concludes.
rule_skin_light ==
  [antecedent |-> {<<"skin_colour", "light">>, <<"hair_colour", "blonde">>,
                   <<"height", "tall">>},
   consequent |-> "high"]
rule_skin_medium ==
  [antecedent |-> {<<"skin_colour", "medium">>, <<"hair_colour", "brown">>,
                   <<"height", "average">>},
   consequent |-> "medium"]
rule_skin_dark ==
  [antecedent |-> {<<"skin_colour", "dark">>, <<"hair_colour", "black">>,
                   <<"height", "short">>},
   consequent |-> "low"]

rule_calm == [antecedent |-> {<<"temperament", "calm">>}, consequent |-> "high"]
rule_balanced ==
  [antecedent |-> {<<"temperament", "balanced">>}, consequent |-> "medium"]
rule_angry == [antecedent |-> {<<"temperament", "angry">>}, consequent |-> "low"]

rule_blood_A == [antecedent |-> {<<"blood_group", "A">>}, consequent |-> "high"]
rule_blood_B == [antecedent |-> {<<"blood_group", "B">>}, consequent |-> "medium"]
rule_blood_O == [antecedent |-> {<<"blood_group", "O">>}, consequent |-> "low"]

rule_educ_low ==
  [antecedent |-> {<<"educational_level", "low">>}, consequent |-> "low"]
rule_educ_medium ==
  [antecedent |-> {<<"educational_level", "medium">>}, consequent |-> "medium"]
rule_educ_high ==
  [antecedent |-> {<<"educational_level", "high">>}, consequent |-> "high"]

compatibility_morphological_ctrl ==
  <<rule_skin_light, rule_skin_medium, rule_skin_dark>>
compatibility_psychological_ctrl == <<rule_calm, rule_balanced, rule_angry>>
compatibility_medical_ctrl == <<rule_blood_A, rule_blood_B, rule_blood_O>>
compatibility_salary_ctrl == <<rule_educ_low, rule_educ_medium, rule_educ_high>>

ControlSystems ==
  [ morphological |-> compatibility_morphological_ctrl,
    psychological |-> compatibility_psychological_ctrl,
    medical       |-> compatibility_medical_ctrl,
    salary        |-> compatibility_salary_ctrl ]

Groups == DOMAIN ControlSystems

\* The Antecedent variables a control system's rules refer to.
CtrlAntecedents(g) ==
  {t[1] : t \in UNION {ControlSystems[g][i].antecedent :
                         i \in DOMAIN ControlSystems[g]}}

\* ------------------------------------------------------------------------
\* Defuzzification (skfuzzy: find_memberships, defuzz, centroid), reached by
\* sim.compute()
\* ------------------------------------------------------------------------
\* Below, an activated term of the Consequent is a pair <<t, cut>>: its
\* breakpoints t (its sampled mf is x |-> trimf(x, t)) and its membership
\* value cut.

\* interp_membership(universe, term.mf, X / XScale) for a point of the
\* upsampled universe of the Consequent: linear between neighbouring samples.
InterpMf(t, X) ==
  CHOOSE y \in
    { IF X % XScale = 0 THEN m[1]
      ELSE IF m[2] >= m[1]
           THEN m[1] + ((m[2] - m[1]) * (X % XScale)) \div XScale
           ELSE m[1] - ((m[1] - m[2]) * (X % XScale)) \div XScale :
        m \in {<<trimf(X \div XScale, t), trimf((X \div XScale) + 1, t)>>} } :
    TRUE

\* _interp_universe_fast: the points where the sampled mf of a term crosses
\* the level `cut` (where xmf >= cut changes, xmf > 0 for a zero cut).
Crossings(t, cut) ==
  LET Above(m) == IF cut = 0 THEN m > 0 ELSE m >= cut
  IN { XScale * m[1] + (Abs(cut - m[2]) * XScale) \div Abs(m[3] - m[2]) :
         m \in {n \in {<<i, trimf(i, t), trimf(i + 1, t)>> :
                         i \in UMin(Consequent) .. (UMax(Consequent) - 1)} :
                  Above(n[2]) /= Above(n[3])} }

\* The membership of the aggregated output set at the point X: the maximum
\* over the activated terms of min(cut, term.mf).
RECURSIVE OutputMf(_, _)
OutputMf(terms, X) ==
  IF terms = {} THEN 0
  ELSE LET tc == CHOOSE m \in terms : TRUE
       IN Max(Min(tc[2], InterpMf(tc[1], X)), OutputMf(terms \ {tc}, X))

\* centroid(): one piece of the polygon between two neighbouring points,
\* as <<6 * XScale^2 * Den * moment * area, 2 * XScale * Den * area>>.
CentroidPiece(x1, x2, y1, y2) ==
  IF (y1 = 0 /\ y2 = 0) \/ x1 = x2 THEN <<0, 0>>
  ELSE IF y1 = y2
       THEN <<3 * (x1 + x2) * (x2 - x1) * y1, 2 * (x2 - x1) * y1>>
  ELSE IF y1 = 0 /\ y2 /= 0
       THEN <<(2 * (x2 - x1) + 3 * x1) * (x2 - x1) * y2, (x2 - x1) * y2>>
  ELSE IF y2 = 0 /\ y1 /= 0
       THEN <<((x2 - x1) + 3 * x1) * (x2 - x1) * y1, (x2 - x1) * y1>>
  ELSE <<(x2 - x1) * (x2 - x1) * (2 * y2 + y1)
           + 3 * x1 * (x2 - x1) * (y1 + y2),
         (x2 - x1) * (y1 + y2)>>

\* The sums of centroid() and the sum of the memberships that defuzz() tests,
\* as <<moments, areas, memberships>>.  (Values are bound through singleton
\* sets so that each is computed once.)
AddSums(S, T) ==
  CHOOSE r \in {<<a[1] + b[1], a[2] + b[2], a[3] + b[3]>> : a \in S, b \in T} :
    TRUE

\* The piece between the neighbouring points x1 < x2; the membership at x1
\* is counted with it.
PieceSums(terms, x1, x2) ==
  CHOOSE r \in { <<CentroidPiece(x1, x2, y[1], y[2])[1],
                   CentroidPiece(x1, x2, y[1], y[2])[2], y[1]>> :
                   y \in {<<OutputMf(terms, x1), OutputMf(terms, x2)>>} } : TRUE

\* The pieces over a sorted run of points.
RECURSIVE CentroidRun(_, _, _)
CentroidRun(terms, pts, i) ==
  IF i >= Len(pts) THEN <<0, 0, 0>>
  ELSE AddSums({PieceSums(terms, pts[i], pts[i + 1])},
               {CentroidRun(terms, pts, i + 1)})

\* The same over the upsampled universe between the samples lo and hi, unit
\* interval by unit interval (halving the range): the universe of the
\* Consequent united with the crossing points new_values.
RECURSIVE CentroidSums(_, _, _, _)
CentroidSums(terms, new_values, lo, hi) ==
  IF hi = lo + 1
  THEN CentroidRun(terms,
         <<XScale * lo>>
           \o SortSet({X \in new_values : XScale * lo < X /\ X < XScale * hi})
           \o <<XScale * hi>>,
         1)
  ELSE AddSums({CentroidSums(terms, new_values, lo, (lo + hi) \div 2)},
               {CentroidSums(terms, new_values, (lo + hi) \div 2, hi)})

\* defuzz(x, mfx, 'centroid'): the assertion that the memberships do not sum
\* to zero, then centroid().  s: the sums over all points but the last;
\* last: the membership at the last point.
DefuzzOf(s, last) ==
  IF s[3] + last = 0
  THEN [raised |-> TRUE, value |-> << >>]
  ELSE [raised |-> FALSE, value |-> Rat(s[1], 3 * XScale * s[2])]

\* CrispValueCalculator.defuzz() with the default 'centroid' method.  cuts
\* maps every activated term of the Consequent to its membership value.
\* Result: [raised |-> TRUE] when the assertion fails (compute() turns it
\* into the ValueError "Crisp output cannot be calculated ..."), else the
\* centroid as an exact fraction.
DefuzzTerms(terms) ==
  CHOOSE r \in
    { DefuzzOf(s, OutputMf(terms, XScale * UMax(Consequent))) :
        s \in { CentroidSums(
                  terms,
                  UNION {Crossings(tc[1], tc[2]) : tc \in terms},
                  UMin(Consequent), UMax(Consequent)) } } : TRUE

Defuzz(cuts) ==
  IF DOMAIN cuts = {}
  THEN [raised |-> TRUE, value |-> << >>]
  ELSE CHOOSE r \in
         { DefuzzTerms(terms) :
             terms \in {{<<abc[Consequent][l], cuts[l]>> : l \in DOMAIN cuts}} } :
         TRUE

\* ------------------------------------------------------------------------
\* Simulation state (skfuzzy keeps it per ControlSystemSimulation)
\* ------------------------------------------------------------------------
\* The two module-level calls of compute_compatibility_score.
Calls == {1, 2}

\* One key for every simulation: state kept on the shared variables.
StateKeyShared(c, g) == <<0, "shared">>

\* The key under which the state of the simulation that call c creates for
\* control system g is kept (antecedent.input[sim], term.membership_value[sim]):
\* every ControlSystemSimulation(...) of lines 99-102 is a new object.
StateKey(c, g) == <<c, g>>

Put(f, k, v) == [x \in DOMAIN f \cup {k} |-> IF x = k THEN v ELSE f[x]]
Del(f, k) == [x \in DOMAIN f \ {k} |-> f[x]]

\* sim.input[var] = value: with the default clip_to_bounds=True the value
\* is clipped to [universe.min(), universe.max()] before it is stored.
ClipToBounds(v, value) == Min(Max(value, UMin(v)), UMax(v))

\* CrispValueCalculator.fuzz: every term of every Antecedent of the control
\* system gets interp_membership(universe, mf, input) as membership value.
Fuzz(mv, inp, key, g) ==
  LET terms == {t \in TermIds : t[1] \in CtrlAntecedents(g)}
  IN [x \in DOMAIN mv \cup {<<key, t>> : t \in terms} |->
        IF x[1] = key /\ x[2] \in terms
        THEN mf(x[2], inp[<<key, x[2][1]>>])
        ELSE mv[x]]

\* A reset of every consequent term before every rule.
ClearForEveryRule(mv, key, rule, first) ==
  [x \in {y \in DOMAIN mv : ~(y[1] = key /\ y[2][1] = Consequent)} |-> mv[x]]
\* "Clear results of prior runs": before the first rule, the membership value
\* of that rule's consequent term is reset to None.
ClearPriorRun(mv, key, rule, first) ==
  IF first THEN Del(mv, <<key, <<Consequent, rule.consequent>>>>) ELSE mv

\* The antecedent's membership: terms joined by & combine with np.fmin.
Firing(mv, key, rule) ==
  LET vals == {mv[<<key, t>>] : t \in rule.antecedent}
  IN CHOOSE y \in vals : \A z \in vals : y <= z

\* compute_rule: the activation (firing times weight 1) is accumulated into
\* the consequent term with np.fmax, or stored when the term has none yet.
ComputeRule(mv, key, rule) ==
  LET ct == <<key, <<Consequent, rule.consequent>>>>
      value == Firing(mv, key, rule)
  IN Put(mv, ct, IF ct \in DOMAIN mv THEN Max(value, mv[ct]) ELSE value)

\* The rule loop of compute(), over the rules in the order given.
RECURSIVE ComputeRules(_, _, _, _)
ComputeRules(mv, key, rules, i) ==
  IF i > Len(rules) THEN mv
  ELSE ComputeRules(
         ComputeRule(ClearPriorRun(mv, key, rules[i], i = 1), key, rules[i]),
         key, rules, i + 1)

\* The membership values of the Consequent's activated terms for one key.
Cuts(mv, key) ==
  [l \in {m \in Labels(Consequent) : <<key, <<Consequent, m>>>> \in DOMAIN mv}
     |-> mv[<<key, <<Consequent, l>>>>]]

\* sim.compute() for the simulation of control system g kept under `key`,
\* with the rules of g taken in the order `order`; inp and mv are the stored
\* inputs and membership values.  raised: compute() ended in a ValueError.
SimCompute(inp, mv, key, g, order) ==
  IF \E v \in CtrlAntecedents(g) : <<key, v>> \notin DOMAIN inp
  THEN [raised |-> TRUE, membership_value |-> mv, value |-> << >>]
  ELSE CHOOSE r \in
         { [raised |-> Defuzz(Cuts(mv2, key)).raised,
            membership_value |-> mv2,
            value |-> Defuzz(Cuts(mv2, key)).value] :
             mv2 \in { ComputeRules(
                         Fuzz(mv, inp, key, g), key,
                         [i \in DOMAIN order |-> ControlSystems[g][order[i]]],
                         1) } } : TRUE

\* ------------------------------------------------------------------------
\* compute_compatibility_score (app.py lines 84-121)
\* ------------------------------------------------------------------------
\* Lines 104-109: which simulation's input is assigned from which parameter.
Assignments ==
  (104 :> [sim |-> "morphological", var |-> "skin_colour", arg |-> "skin_color"])
  @@ (105 :> [sim |-> "morphological", var |-> "hair_colour", arg |-> "hair_color"])
  @@ (106 :> [sim |-> "morphological", var |-> "height", arg |-> "height"])
  @@ (107 :> [sim |-> "psychological", var |-> "temperament", arg |-> "temperament"])
  @@ (108 :> [sim |-> "medical", var |-> "blood_group", arg |-> "blood_group"])
  @@ (109 :> [sim |-> "salary", var |-> "educational_level",
              arg |-> "educational_level"])

\* Lines 111-114: which simulation is computed.
Computes ==
  (111 :> "morphological") @@ (112 :> "psychological")
  @@ (113 :> "medical") @@ (114 :> "salary")

AssignStmts == DOMAIN Assignments
ComputeStmts == DOMAIN Computes
Stmts == AssignStmts \cup ComputeStmts

\* The input store after assignment statement s of call c with arguments p.
Assigned(inp, c, s, p) ==
  Put(inp, <<StateKey(c, Assignments[s].sim), Assignments[s].var>>,
      ClipToBounds(Assignments[s].var, p[Assignments[s].arg]))

\* A mean that leaves the salary output out.
OverallOfThree(o) ==
  RatDivInt(RatAdd(RatAdd(o["morphological"], o["psychological"]),
                   o["medical"]), 3)
\* Lines 116-119: the four outputs summed and divided by 4.
Overall(o) ==
  RatDivInt(RatAdd(RatAdd(RatAdd(o["morphological"], o["psychological"]),
                          o["medical"]), o["salary"]), 4)

\* A verdict with an exclusive threshold.
CoupleVerdictStrict(male, female) ==
  IF male[1] > 50 * male[2] /\ female[1] > 50 * female[2]
  THEN "High" ELSE "Low"
\* Lines 147-150: the couple verdict.
CoupleVerdict(male, female) ==
  IF male[1] >= 50 * male[2] /\ female[1] >= 50 * female[2]
  THEN "High" ELSE "Low"

\* The rules of every control system in the order they are listed at
\* lines 79-82.
SourceOrder == [g \in Groups |-> <<1, 2, 3>>]

\* ------------------------------------------------------------------------
\* Profiles
\* ------------------------------------------------------------------------
Profile(s, h, ht, t, b, e) ==
  [skin_color |-> s, hair_color |-> h, height |-> ht, temperament |-> t,
   blood_group |-> b, educational_level |-> e]

\* The example inputs of lines 124-136.
skin_color_male == 70
hair_color_male == 60
height_male == 180
temperament_male == 20
blood_group_male == 30
educational_level_male == 80
skin_color_female == 80
hair_color_female == 70
height_female == 165
temperament_female == 70
blood_group_female == 40
educational_level_female == 70

Male == Profile(skin_color_male, hair_color_male, height_male,
                temperament_male, blood_group_male, educational_level_male)
Female == Profile(skin_color_female, hair_color_female, height_female,
                  temperament_female, blood_group_female,
                  educational_level_female)

\* The ranges the docstring (lines 89-94) declares for the parameters.
DeclaredRange ==
  [skin_colour |-> 0 .. 100, hair_colour |-> 0 .. 100, height |-> 120 .. 220,
   temperament |-> 0 .. 100, blood_group |-> 0 .. 100,
   educational_level |-> 0 .. 100]

\* Profiles the module-level program is run on: the two examples of the
\* source, a profile at the centre of every term, one whose temperament
\* lies on the edge of the universe, one whose skin and hair tones activate
\* no common rule, and one of the declared maximum height.
Centre == Profile(50, 50, 170, 50, 50, 50)
Profiles ==
  { Male, Female, Centre,
    [Male EXCEPT !.temperament = 0],
    [Male EXCEPT !.skin_color = 20, !.hair_color = 80],
    [Male EXCEPT !.skin_color = 25, !.hair_color = 25, !.height = 220] }

\* Profiles of the sweep: one input at a time over its whole declared range,
\* the other inputs as in the male example, and a grid of the three
\* morphological inputs.
SweepProfiles ==
  {[Male EXCEPT !.temperament = x] : x \in DeclaredRange["temperament"]}
  \cup {[Male EXCEPT !.blood_group = x] : x \in DeclaredRange["blood_group"]}
  \cup {[Male EXCEPT !.educational_level = x] :
          x \in DeclaredRange["educational_level"]}
  \cup {[Male EXCEPT !.skin_color = x[1], !.hair_color = x[2], !.height = x[3]] :
          x \in {0, 25, 40, 70, 100} \X {25, 40, 60} \X
                {120, 150, 165, 180, 219, 220}}

\* The arguments of the two module-level calls (lines 138-142).
ProgramArgs == <<Male, Female>>

\* ------------------------------------------------------------------------
\* State
\* ------------------------------------------------------------------------
VARIABLES
  frames,               \* per call: status and the statements already run
  args,                 \* the arguments of every call made so far
  input,                \* antecedent.input[sim], by <<state key, variable>>
  membership_value,     \* term.membership_value[sim], by <<state key, term>>
  output,               \* sim.output['compatibility'], by <<call, group>>
  run,                  \* sim._run: the computes a simulation has completed
  compatibility_score,  \* the value every call returned
  verdict,              \* the couple verdict printed, "none" before
  ruleOrder             \* the order of the rules in every control system

vars == <<frames, args, input, membership_value, output, run,
          compatibility_score, verdict, ruleOrder>>

Idle == [status |-> "idle", ran |-> {}]

Init ==
  /\ frames = [c \in Calls |-> Idle]
  /\ args = << >>
  /\ input = << >>
  /\ membership_value = << >>
  /\ output = << >>
  /\ run = << >>
  /\ compatibility_score = << >>
  /\ verdict = "none"
  /\ ruleOrder = SourceOrder

\* Statement s of call c is the next to run.  In program order every earlier
\* statement has run; when statements may be reordered, a compute only waits
\* for the inputs of its own simulation.
Ready(c, s, reorder) ==
  /\ frames[c].status = "running"
  /\ s \notin frames[c].ran
  /\ IF reorder
     THEN s \in ComputeStmts =>
            \A t \in AssignStmts :
              Assignments[t].sim = Computes[s] => t \in frames[c].ran
     ELSE frames[c].ran = {t \in Stmts : t < s}

\* Lines 138 and 141 calling the function, and lines 99-102: the four
\* simulations are created.  In program order call 2 follows the return of
\* call 1.
Invoke(c, p, reorder) ==
  /\ frames[c].status = "idle"
  /\ verdict = "none"
  /\ IF reorder \/ c = 1 THEN TRUE ELSE frames[c - 1].status = "returned"
  /\ frames' = [frames EXCEPT ![c].status = "running"]
  /\ args' = Put(args, c, p)
  /\ run' = [k \in DOMAIN run \cup {<<c, g>> : g \in Groups} |->
               IF k \in DOMAIN run THEN run[k] ELSE 0]
  /\ UNCHANGED <<input, membership_value, output, compatibility_score,
                 verdict, ruleOrder>>

\* Lines 104-109: one input of one simulation is assigned.
AssignInput(c, s, reorder) ==
  /\ s \in AssignStmts
  /\ Ready(c, s, reorder)
  /\ input' = Assigned(input, c, s, args[c])
  /\ frames' = [frames EXCEPT ![c].ran = @ \cup {s}]
  /\ UNCHANGED <<args, membership_value, output, run, compatibility_score,
                 verdict, ruleOrder>>

\* Lines 111-114: one simulation is computed.  A ValueError raised by
\* compute() is not caught: the call ends there.
Compute(c, s, reorder) ==
  /\ s \in ComputeStmts
  /\ Ready(c, s, reorder)
  /\ \E g \in {Computes[s]} :
     \E r \in {SimCompute(input, membership_value, StateKey(c, g), g,
                          ruleOrder[g])} :
        /\ membership_value' = r.membership_value
        /\ IF r.raised
           THEN /\ frames' = [frames EXCEPT ![c].status = "raised",
                                            ![c].ran = @ \cup {s}]
                /\ UNCHANGED <<output, run>>
           ELSE /\ frames' = [frames EXCEPT ![c].ran = @ \cup {s}]
                /\ output' = Put(output, <<c, g>>, r.value)
                /\ run' = [run EXCEPT ![<<c, g>>] = @ + 1]
  /\ UNCHANGED <<args, input, compatibility_score, verdict, ruleOrder>>

\* Lines 116-121: the overall score is computed and returned.
Return(c) ==
  /\ frames[c].status = "running"
  /\ frames[c].ran = Stmts
  /\ compatibility_score' =
       Put(compatibility_score, c, Overall([g \in Groups |-> output[<<c, g>>]]))
  /\ frames' = [frames EXCEPT ![c].status = "returned"]
  /\ UNCHANGED <<args, input, membership_value, output, run, verdict,
                 ruleOrder>>

\* Lines 147-150: both scores are compared with 50.
Verdict ==
  /\ verdict = "none"
  /\ \A c \in Calls : frames[c].status = "returned"
  /\ verdict' = CoupleVerdict(compatibility_score[1], compatibility_score[2])
  /\ UNCHANGED <<frames, args, input, membership_value, output, run,
                 compatibility_score, ruleOrder>>

\* The program as written: statements in program order.
Next ==
  \/ \E c \in Calls, p \in Profiles : Invoke(c, p, FALSE)
  \/ \E c \in Calls, s \in AssignStmts : AssignInput(c, s, FALSE)
  \/ \E c \in Calls, s \in ComputeStmts : Compute(c, s, FALSE)
  \/ \E c \in Calls : Return(c)
  \/ Verdict

Spec == Init /\ [][Next]_vars

\* The same function called once on every profile of the sweep.
NextSweep ==
  \/ \E p \in SweepProfiles : Invoke(1, p, FALSE)
  \/ \E s \in AssignStmts : AssignInput(1, s, FALSE)
  \/ \E s \in ComputeStmts : Compute(1, s, FALSE)
  \/ Return(1)

SpecSweep == Init /\ [][NextSweep]_vars

\* The program with the rules of every control system listed in any order.
Orders ==
  {<<1, 2, 3>>, <<1, 3, 2>>, <<2, 1, 3>>, <<2, 3, 1>>, <<3, 1, 2>>, <<3, 2, 1>>}

InitOrders ==
  /\ frames = [c \in Calls |-> Idle]
  /\ args = << >>
  /\ input = << >>
  /\ membership_value = << >>
  /\ output = << >>
  /\ run = << >>
  /\ compatibility_score = << >>
  /\ verdict = "none"
  /\ ruleOrder \in {[g \in Groups |-> o] : o \in Orders}

NextOrders ==
  \/ \E p \in Profiles : Invoke(1, p, FALSE)
  \/ \E s \in AssignStmts : AssignInput(1, s, FALSE)
  \/ \E s \in ComputeStmts : Compute(1, s, FALSE)
  \/ Return(1)

SpecOrders == InitOrders /\ [][NextOrders]_vars

\* The two calls running concurrently.  The statements of lines 104-114 of
\* call 1 run in any order that assigns a simulation's inputs before
\* computing it; those of call 2 run in program order, interleaved with them
\* at any point.
NextPar ==
  \/ \E c \in Calls : Invoke(c, ProgramArgs[c], TRUE)
  \/ \E s \in AssignStmts : AssignInput(1, s, TRUE)
  \/ \E s \in ComputeStmts : Compute(1, s, TRUE)
  \/ \E s \in AssignStmts : AssignInput(2, s, FALSE)
  \/ \E s \in ComputeStmts : Compute(2, s, FALSE)
  \/ \E c \in Calls : Return(c)

SpecPar == Init /\ [][NextPar]_vars

\* ------------------------------------------------------------------------
\* A call on its own: lines 104-119 run in program order, for call c with
\* arguments p, on a store no simulation has written yet
\* ------------------------------------------------------------------------
ProgramOrder == SortSet(Stmts)

Fresh == [input |-> << >>, membership_value |-> << >>, output |-> << >>,
          raised |-> FALSE]

RunStmt(st, c, p, order, s) ==
  IF s \in AssignStmts
  THEN [st EXCEPT !.input = Assigned(st.input, c, s, p)]
  ELSE CHOOSE n \in
         { [input |-> st.input,
            membership_value |-> r.membership_value,
            output |-> IF r.raised THEN st.output
                       ELSE Put(st.output, <<c, Computes[s]>>, r.value),
            raised |-> r.raised] :
             r \in {SimCompute(st.input, st.membership_value,
                               StateKey(c, Computes[s]), Computes[s],
                               order[Computes[s]])} } : TRUE

RECURSIVE RunFrom(_, _, _, _, _)
RunFrom(st, c, p, order, i) ==
  IF st.raised \/ i > Len(ProgramOrder) THEN st
  ELSE CHOOSE n \in
         { RunFrom(st2, c, p, order, i + 1) :
             st2 \in {RunStmt(st, c, p, order, ProgramOrder[i])} } : TRUE

SequentialRun(c, p, order) == RunFrom(Fresh, c, p, order, 1)

\* What a finished call c left behind agrees with the run r of the same
\* call on its own: the same simulations computed with the same outputs,
\* the same exception or the same overall score.
AgreesWith(c, r) ==
  /\ (frames[c].status = "raised") = r.raised
  /\ \A g \in Groups :
       /\ (<<c, g>> \in DOMAIN output) = (<<c, g>> \in DOMAIN r.output)
       /\ <<c, g>> \in DOMAIN output => output[<<c, g>>] = r.output[<<c, g>>]
  /\ frames[c].status = "returned" =>
       compatibility_score[c] = Overall([g \in Groups |-> r.output[<<c, g>>]])

\* ------------------------------------------------------------------------
\* Properties
\* ------------------------------------------------------------------------
InDomain(v) ==
  /\ v[1] >= UMin(Consequent) * v[2]
  /\ v[1] <= UMax(Consequent) * v[2]

Computed(c, s) == s \in ComputeStmts /\ s \in frames[c].ran
Finished(c) == frames[c].status \in {"returned", "raised"}

\* The argument of the profile p that is assigned to the Antecedent v.
ArgOfVar(p, v) ==
  p[Assignments[CHOOSE s \in AssignStmts : Assignments[s].var = v].arg]

\* The firing strengths of the consequent terms after the simulation of
\* control system g of call c was computed.
CutsOf(c, g) == Cuts(membership_value, StateKey(c, g))
NoRuleFired(c, g) == \A l \in DOMAIN CutsOf(c, g) : CutsOf(c, g)[l] = 0

\* C1: for every profile, each of the four rule-group evaluations yields a
\* crisp score inside [0,100], and so does the overall score returned.
C1_ScoresInDomain ==
  \A c \in Calls :
    /\ \A s \in ComputeStmts :
         Computed(c, s) =>
           /\ <<c, Computes[s]>> \in DOMAIN output
           /\ InDomain(output[<<c, Computes[s]>>])
    /\ frames[c].status /= "raised"
    /\ c \in DOMAIN compatibility_score => InDomain(compatibility_score[c])

\* C2: when no rule of a group fires with nonzero strength, that group's
\* evaluation returns the midpoint 50 of the output domain; it never raises,
\* and compute_compatibility_score still returns a score.
C2_MidpointFallback ==
  \A c \in Calls : \A s \in ComputeStmts :
    (Computed(c, s) /\ NoRuleFired(c, Computes[s])) =>
      /\ frames[c].status /= "raised"
      /\ <<c, Computes[s]>> \in DOMAIN output
      /\ output[<<c, Computes[s]>>] = <<50, 1>>

\* C3: the couple verdict is High exactly when both overall scores are >= 50
\* (the threshold is inclusive), and Low otherwise.
C3_VerdictThreshold ==
  verdict /= "none" =>
    /\ verdict \in {"High", "Low"}
    /\ verdict = "High" <=>
         \A c \in Calls :
           compatibility_score[c][1] >= 50 * compatibility_score[c][2]

C3_Witness ==
  /\ verdict = "High"
  /\ \A c \in Calls : compatibility_score[c] = <<50, 1>>

\* C4: a call that returns has computed each of the four simulations exactly
\* once, has assigned to each simulation the profile values of its own
\* Antecedents and no others, and returns the sum of the four outputs
\* divided by 4.
C4_MeanOfFourGroups ==
  \A c \in Calls :
    frames[c].status = "returned" =>
      /\ \A g \in Groups : run[<<c, g>>] = 1
      /\ \A g \in Groups : \A v \in Antecedents :
           /\ (<<StateKey(c, g), v>> \in DOMAIN input) = (v \in CtrlAntecedents(g))
           /\ v \in CtrlAntecedents(g) =>
                input[<<StateKey(c, g), v>>] = ClipToBounds(v, ArgOfVar(args[c], v))
      /\ RatAdd(RatAdd(compatibility_score[c], compatibility_score[c]),
                RatAdd(compatibility_score[c], compatibility_score[c]))
           = RatAdd(RatAdd(output[<<c, "morphological">>],
                           output[<<c, "psychological">>]),
                    RatAdd(output[<<c, "medical">>], output[<<c, "salary">>]))

C4_Witness ==
  /\ frames[1].status = "returned"
  /\ args[1] = Female
  /\ Cardinality({output[<<1, g>>] : g \in Groups}) = 4

\* The firing strength every consequent term of control system g is due for
\* the arguments p: over the rules concluding the term, the largest of the
\* rule's smallest antecedent membership.
Degree(p, t) == trimf(ClipToBounds(t[1], ArgOfVar(p, t[1])), abc[t[1]][t[2]])
SmallestOf(S) == CHOOSE d \in S : \A e \in S : d <= e
LargestOf(S) == CHOOSE d \in S : \A e \in S : e <= d
ExpectedCuts(g, p) ==
  [l \in {ControlSystems[g][i].consequent : i \in DOMAIN ControlSystems[g]} |->
     LargestOf({ SmallestOf({Degree(p, t) : t \in ControlSystems[g][i].antecedent}) :
                   i \in {j \in DOMAIN ControlSystems[g] :
                            ControlSystems[g][j].consequent = l} })]

Quiescent == \A c \in Calls : frames[c].status /= "running"

C7_RuleOrderIrrelevant ==
  \A c \in Calls : \A g \in Groups :
    (Finished(c) /\ (<<c, g>> \in DOMAIN output \/ frames[c].status = "raised"))
      => /\ (<<c, g>> \in DOMAIN output)
              = (<<c, g>> \in DOMAIN SequentialRun(c, args[c], SourceOrder).output)
         /\ <<c, g>> \in DOMAIN output =>
              output[<<c, g>>]
                = SequentialRun(c, args[c], SourceOrder).output[<<c, g>>]

C7_Witness ==
  /\ frames[1].status = "returned"
  /\ args[1] = Female
  /\ ruleOrder["morphological"] = <<3, 1, 2>>

\* C8: for every term with breakpoints (a,b,c), the membership degree used
\* by inference is 0 for x <= a and for x >= c (unless that side is a step),
\* 1 at x = b, within [0,1], non-decreasing on [a,b] and non-increasing on
\* [b,c], at every crisp value of the declared range, endpoints included.
DegreeUsed(t, x) == trimf(ClipToBounds(t[1], x), abc[t[1]][t[2]])

C8_TriangularMembership ==
  /\ \A c \in Calls : \A s \in ComputeStmts :
       Computed(c, s) =>
         \A t \in {u \in TermIds : u[1] \in CtrlAntecedents(Computes[s])} :
           LET x == ArgOfVar(args[c], t[1])
               d == membership_value[<<StateKey(c, Computes[s]), t>>]
               bp == abc[t[1]][t[2]]
           IN /\ 0 <= d /\ d <= Den
              /\ (x <= bp[1] /\ bp[1] /= bp[2]) => d = 0
              /\ (x >= bp[3] /\ bp[2] /= bp[3]) => d = 0
              /\ x = bp[2] => d = Den
  /\ \A t \in {u \in TermIds : u[1] \in Antecedents} :
       \A x \in DeclaredRange[t[1]] :
         (x + 1) \in DeclaredRange[t[1]] =>
           /\ (x + 1 <= abc[t[1]][t[2]][2]) => DegreeUsed(t, x) <= DegreeUsed(t, x + 1)
           /\ (x >= abc[t[1]][t[2]][2]) => DegreeUsed(t, x) >= DegreeUsed(t, x + 1)

\* C9: every input variable's universe is its declared closed range with
\* both endpoints (0..100, and 120..220 for height), and every crisp input
\* inside the declared range is fuzzified at exactly that value.
C9_UniverseIsDeclaredRange ==
  \A c \in Calls : \A s \in AssignStmts :
    (s \in frames[c].ran
       /\ args[c][Assignments[s].arg] \in DeclaredRange[Assignments[s].var])
      => /\ args[c][Assignments[s].arg] \in Universe(Assignments[s].var)
         /\ input[<<StateKey(c, Assignments[s].sim), Assignments[s].var>>]
              = args[c][Assignments[s].arg]

\* C10: in each single-antecedent group, for an integer input x in 0..100,
\* no rule fires with nonzero strength if and only if x is 0 or 100; so the
\* zero-aggregate defuzzification is reached only at the two endpoints.
SingleAntecedentGroups == {"psychological", "medical", "salary"}

C10_ZeroFiringOnlyAtEndpoints ==
  \A c \in Calls : \A s \in ComputeStmts :
    (Computed(c, s) /\ Computes[s] \in SingleAntecedentGroups) =>
      LET g == Computes[s]
          x == ArgOfVar(args[c], CHOOSE v \in CtrlAntecedents(g) : TRUE)
      IN /\ NoRuleFired(c, g) <=> x \in {0, 100}
         /\ (<<c, g>> \notin DOMAIN output) <=> x \in {0, 100}

C10_Witness ==
  /\ 113 \in frames[1].ran
  /\ args[1].blood_group = 100
  /\ NoRuleFired(1, "medical")
  /\ frames[1].status = "raised"

====
